---- MODULE Spec2Model ----
(***************************************************************************)
(* DeDeezer auto-patcher (autopatch.js, class DeezerPatcher).              *)
(*                                                                         *)
(* The model follows one installation of Deezer Desktop over a bounded     *)
(* number of patcher sessions.  The file system is the live archive        *)
(* (resources/app.asar), the backup (resources/app.bak.asar), the          *)
(* session's scratch workspace (os.tmpdir()/deezer-patch-<now>) and the    *)
(* detector's throw-away directory (os.tmpdir()/deezer-check-<now>).       *)
(* External tools (asar extract / pack, npm install, tasklist, taskkill)   *)
(* are black boxes: each call either succeeds with its documented effect   *)
(* or exits non-zero, which execSync turns into an exception.              *)
(***************************************************************************)
EXTENDS Integers, Sequences, FiniteSets, TLC

VARIABLES
    platform,           \* this.platform = os.platform()
    wrapperPresent,     \* __dirname/decomp/build/main.js exists
    live,               \* <deezerPath>/resources/app.asar
    backup,             \* <deezerPath>/resources/app.bak.asar
    ws,                 \* this.tempDir: [exists, tree, newAsar]
    tempCheck,          \* the detector's deezer-check-<now> directory exists
    useExistingBackup,  \* this.useExistingBackup
    pc,                 \* position of the session inside run()
    exitCode,           \* process exit status, -1 while running
    log,                \* what the session has done so far, in order
    isPatched,          \* result of checkPatchSignature in this session
    answer,             \* the text typed at the re-patch prompt
    sessions,           \* number of sessions started so far
    liveAtStart,        \* live archive when the session was constructed
    backupAtStart,      \* backup when the session was constructed
    detectError,        \* checkPatchSignature took its catch branch
    prev,               \* the previous session: how it started and ended
    det,                \* one isolated call of checkPatchSignature
    killOutcome,        \* what tasklist and taskkill did in step0_KillDeezer
    \* the injection wrappers (decomp/build/main.js, loadextention.js)
    env,                \* process.env: DZ_DEVTOOLS and DZ_DISABLE_UPDATE
    envBefore,          \* process.env when the wrapper started to load
    variant,            \* which wrapper file is the entry script
    wpc,                \* position of the wrapper's top level and bootstrap()
    appOnMode,          \* app.on is the override or the original function
    readyListeners,     \* the array readyListeners
    nativeListeners,    \* listeners registered through originalAppOn
    called,             \* the 'ready' listeners invoked so far, in order
    stage,              \* position inside initAdblocker / loadExtensionSafe
    drainIdx,           \* number of readyListeners entries replayed so far
    nreg,               \* number of listeners the application registered
    appReady,           \* the native 'ready' event has fired
    \* the extension-loading wrapper of the README (Strategy D)
    extensionLoaded,        \* let extensionLoaded
    extensionLoadPromise,   \* let extensionLoadPromise
    loadCalls,              \* number of calls of loadUblockInternal
    loadResult,             \* how session.defaultSession.loadExtension ended
    wrapped,                \* the wrapped 'ready' listeners, as registered
    chains,                 \* app.whenReady() promises handed out
    hook,                   \* the native ready hook of line 251
    dReady,                 \* the native 'ready' event has fired
    dpc,                    \* position of the wrapper's top level
    \* the request filters installed by initAdblocker
    blockerHasMatch,    \* typeof blocker.match === 'function'
    fpc,                \* how "Enabling blocking in default session" ended
    filters,            \* per session, the onBeforeRequest listener in use
    handled             \* the intercepted requests and their callback calls

\* the state of the injection wrappers
injectVars == <<env, envBefore, variant, wpc, appOnMode, readyListeners,
                nativeListeners, called, stage, drainIdx, nreg, appReady>>

\* the state of the Strategy D wrapper
strategyVars == <<extensionLoaded, extensionLoadPromise, loadCalls, loadResult,
                  wrapped, chains, hook, dReady, dpc>>

\* the state of the request filters
filterVars == <<blockerHasMatch, fpc, filters, handled>>

\* the state of the patcher and of the installation it works on
patcherVars == <<platform, wrapperPresent, live, backup, ws, tempCheck,
                 useExistingBackup, pc, exitCode, log, isPatched, answer,
                 sessions, liveAtStart, backupAtStart, detectError, prev, det,
                 killOutcome>>

vars == <<platform, wrapperPresent, live, backup, ws, tempCheck,
          useExistingBackup, pc, exitCode, log, isPatched, answer, sessions,
          liveAtStart, backupAtStart, detectError, prev, det, killOutcome,
          injectVars, strategyVars, filterVars>>

(***************************************************************************)
(* Bounds                                                                  *)
(***************************************************************************)
MaxSessions == 2

(***************************************************************************)
(* Script texts.  A script is a sequence of tokens; <<>> is "no file".     *)
(***************************************************************************)
NoScript == <<>>
OrigA == <<"bootstrapA">>
OrigB == <<"bootstrapB">>

\* decomp/build/main.js: the injection wrapper.  It reads and sets
\* process.env.DZ_DEVTOOLS, logs with the '[inject]' tag and requires
\* main.original.js.
WrapperScript == <<"DZ_DEVTOOLS", "[inject]", "require:main.original.js">>

\* String.prototype.includes on the token text
includes(content, marker) == \E i \in DOMAIN content : content[i] = marker

(***************************************************************************)
(* Trees and files                                                         *)
(***************************************************************************)
\* an extracted tree: build/main.js, build/main.original.js, node_modules,
\* package.json
Tree(m, o, n, p) == [main |-> m, orig |-> o, nm |-> n, pkg |-> p]
NoTree == Tree(NoScript, NoScript, "none", FALSE)

NoFile == [kind |-> "none", tree |-> NoTree]

\* @electron/asar pack: a readable archive holding the tree
asarPack(tree) == [kind |-> "asar", tree |-> tree]
\* @electron/asar extract can read the file
asarReadable(file) == file.kind = "asar"
\* @electron/asar extract: the tree of a readable archive
asarExtract(file) == file.tree

existsSync(file) == file.kind # "none"

\* pristine archives shipped by the vendor
PristineA == Tree(OrigA, NoScript, "stock", TRUE)
PristineB == Tree(OrigB, NoScript, "stock", FALSE)
\* a differently structured archive without build/main.js
PristineN == Tree(NoScript, NoScript, "stock", TRUE)

\* what a complete earlier run of the patcher leaves in the live archive
PatchedOf(t) == Tree(WrapperScript, t.main, IF t.pkg THEN "full" ELSE "none", t.pkg)

\* this.tempDir does not exist
NoWorkspace == [exists |-> FALSE, hasTree |-> FALSE, tree |-> NoTree, newAsar |-> NoFile]
\* fs.mkdirSync(this.tempDir): an empty directory
EmptyWorkspace == [exists |-> TRUE, hasTree |-> FALSE, tree |-> NoTree, newAsar |-> NoFile]

(***************************************************************************)
(* The prompt: answers are character sequences                             *)
(***************************************************************************)
lowerChar(c) ==
    CASE c = "Y" -> "y"
      [] c = "E" -> "e"
      [] c = "S" -> "s"
      [] c = "N" -> "n"
      [] OTHER -> c

\* String.prototype.toLowerCase
toLowerCase(s) == [i \in DOMAIN s |-> lowerChar(s[i])]

isSpace(c) == c = " "

RECURSIVE trimStart(_)
trimStart(s) == IF s # <<>> /\ isSpace(Head(s)) THEN trimStart(Tail(s)) ELSE s

RECURSIVE trimEnd(_)
trimEnd(s) ==
    IF s # <<>> /\ isSpace(s[Len(s)]) THEN trimEnd(SubSeq(s, 1, Len(s) - 1)) ELSE s

\* String.prototype.trim
trim(s) == trimEnd(trimStart(s))

\* what the user may type at the prompt
Answers ==
    { <<"y">>, <<"Y">>, <<"y", "e", "s">>, <<" ", "Y", "e", "S", " ">>,
      <<>>, <<"n">>, <<"n", "o">>, <<"y", "e">>, <<"y", " ", "e", "s">>,
      <<"y", "e", "s", "s">>, <<" ">> }

\* a confirmation that forgets the exact comparison and accepts every
\* answer starting with y
askUserConfirmation_prefix(a) ==
    trim(toLowerCase(a)) # <<>> /\ Head(trim(toLowerCase(a))) = "y"

\* askUserConfirmation: the value the promise resolves with
askUserConfirmation(a) ==
    \/ trim(toLowerCase(a)) = <<"y">>
    \/ trim(toLowerCase(a)) = <<"y", "e", "s">>

(***************************************************************************)
(* Patch detection                                                         *)
(***************************************************************************)
\* a detector that looks for one marker only
checkPatchSignature_oneMarker(file, extractOk) ==
    IF extractOk /\ asarReadable(file)
    THEN [result |-> includes(asarExtract(file).main, "DZ_DEVTOOLS"),
          left |-> FALSE]
    ELSE [result |-> FALSE, left |-> TRUE]

\* a detector whose catch branch does not fall back to "not patched"
checkPatchSignature_noDefault(file, extractOk) ==
    [result |-> asarReadable(file) /\ asarExtract(file).main # NoScript,
     left |-> ~extractOk]

\* checkPatchSignature(asarPath): extractOk is the exit status of the asar
\* extract command (and of the read that follows it).  result is the value
\* returned, left tells whether the deezer-check directory still exists.
checkPatchSignature(file, extractOk) ==
    IF extractOk /\ asarReadable(file)
    THEN IF asarExtract(file).main # NoScript
         THEN [result |-> includes(asarExtract(file).main, "DZ_DEVTOOLS")
                          \/ includes(asarExtract(file).main, "[inject]"),
               left |-> FALSE]
         ELSE [result |-> FALSE, left |-> FALSE]
    ELSE [result |-> FALSE, left |-> TRUE]

(***************************************************************************)
(* Pure parts of the steps                                                 *)
(***************************************************************************)
\* a cleanup that removes nothing
cleanup_noop(w) == w

\* cleanup(): remove this.tempDir if it exists
cleanup(w) == IF w.exists THEN NoWorkspace ELSE w

\* a backup step that copies in every session
backupIsWritten_always(bak, use) == TRUE

\* a backup step that forgets the "backup already exists" test
backupIsWritten_noExistsTest(bak, use) == ~use

\* step1_CreateBackup: does the step reach fs.copyFileSync?
backupIsWritten(bak, use) ==
    IF existsSync(bak) /\ ~use THEN FALSE
    ELSE IF use THEN FALSE
    ELSE TRUE

\* an extraction that always reads the live archive
sourceAsar_alwaysLive(liveFile, bak, use) == liveFile

\* an extraction that reads the backup whenever one exists
sourceAsar_backupIfExists(liveFile, bak, use) ==
    IF existsSync(bak) THEN bak ELSE liveFile

\* step3_ExtractAsar: the archive handed to asar extract
sourceAsar(liveFile, bak, use) == IF use THEN bak ELSE liveFile

\* a rename that drops the original entry script
renameMainJs_drop(t) == [t EXCEPT !.main = NoScript]

\* step4_RenameMainJs: fs.renameSync(build/main.js, build/main.original.js)
renameMainJs(t) == [t EXCEPT !.orig = t.main, !.main = NoScript]

\* a copy that leaves the tree as it is
copyNewMainJs_noop(t) == t

\* step5_CopyNewMainJs: fs.copyFileSync(decomp/build/main.js, build/main.js)
copyNewMainJs(t) == [t EXCEPT !.main = WrapperScript]

\* step6_AddGhosteryDependencies, by the point the step has reached:
\* "removed" after fs.rmSync(node_modules), "ghostery" after the first npm
\* install, "full" after the second
addGhosteryDependencies(t, reached) ==
    IF ~t.pkg THEN [t EXCEPT !.nm = "none"]
    ELSE [t EXCEPT !.nm = CASE reached = "removed" -> "none"
                            [] reached = "ghostery" -> "ghostery"
                            [] OTHER -> "full"]

\* a copy with source and destination exchanged
createBackupCopy_swapped(liveFile, bak) == [live |-> bak, backup |-> bak]

\* step1_CreateBackup: fs.copyFileSync(originalAsar, backupFile)
createBackupCopy(liveFile, bak) == [live |-> liveFile, backup |-> liveFile]

\* step8_CopyBack: fs.copyFileSync(newAsarPath, targetAsar)
copyBack(newAsar, liveFile) == newAsar

\* a file cut short by an interrupted write
TruncatedFile == [kind |-> "truncated", tree |-> NoTree]

\* step8_CopyBack: what a failing fs.copyFileSync leaves at a target that
\* existed.  The copy is made in place: it fails before the target is
\* opened for writing (the file is locked), or after that, and then the
\* target is removed or left cut short.
copyFailureLeaves(target) == {target, NoFile, TruncatedFile}

\* a branch that goes on without a backup
detectDecision_noRefuse(patched, bak) ==
    IF patched /\ existsSync(bak) THEN "prompt" ELSE "continue"

\* step0_CheckIfPatched: the branch taken after detection
detectDecision(patched, bak) ==
    IF patched
    THEN IF existsSync(bak) THEN "prompt" ELSE "refuse"
    ELSE "continue"

\* a kill step that goes to the forced kill at once
killCommands_forceFirst(outcome) ==
    CASE outcome \in {"notRunning", "detectFailed"} -> <<"tasklist">>
      [] OTHER -> <<"tasklist", "taskkill/F">>

\* step0_KillDeezer: the commands run for each course of events
killCommands(outcome) ==
    CASE outcome \in {"notRunning", "detectFailed"} -> <<"tasklist">>
      [] outcome = "graceful" -> <<"tasklist", "taskkill">>
      [] OTHER -> <<"tasklist", "taskkill", "taskkill/F">>

\* step0_KillDeezer: what tasklist and the two taskkill commands may do.
\* "detectFailed" is tasklist itself failing, "forceFailed" is both
\* taskkill commands exiting non-zero.
KillOutcomes == {"notRunning", "detectFailed", "graceful", "forced", "forceFailed"}

\* step0_KillDeezer: the message printed before the step goes on
killMessage(outcome) ==
    CASE outcome = "graceful" -> <<"closed">>
      [] outcome = "forced" -> <<"closed">>
      [] OTHER -> <<"notRunning">>

\* a kill step without the inner catch-all: a failing forced kill escapes
killNext_escapes(outcome) ==
    CASE outcome \in {"graceful", "forced"} -> "settle"
      [] outcome = "forceFailed" -> "throw"
      [] OTHER -> "check"

\* a kill step that does not await the settle timer
killNext_noDelay(outcome) == "check"

\* step0_KillDeezer: where the session goes next: the settle timer after a
\* kill, patch detection otherwise; every exception is caught inside
killNext(outcome) ==
    IF outcome \in {"graceful", "forced"} THEN "settle" ELSE "check"

(***************************************************************************)
(* Initial states: an installation and the first process launch            *)
(***************************************************************************)
Platforms == {"win32", "darwin", "linux", "freebsd"}

PristineTrees == {PristineA, PristineB, PristineN}

InitialLive ==
    {NoFile} \cup {asarPack(t) : t \in PristineTrees}
             \cup {asarPack(PatchedOf(t)) : t \in {PristineA, PristineB}}

InitialBackup == {NoFile} \cup {asarPack(t) : t \in {PristineA, PristineB}}

\* no session ran before the first one
NoPrevious == [ran |-> FALSE, failed |-> FALSE, live |-> NoFile, backup |-> NoFile]

\* no isolated detector call is under way
DetIdle == [pc |-> "idle", script |-> NoScript, extractOk |-> FALSE,
            result |-> FALSE, left |-> FALSE]

\* no wrapper is being loaded
InjectIdle ==
    /\ env = [DZ_DEVTOOLS |-> "unset", DZ_DISABLE_UPDATE |-> "unset"]
    /\ envBefore = env
    /\ variant = "none"
    /\ wpc = "idle"
    /\ appOnMode = "original"
    /\ readyListeners = <<>>
    /\ nativeListeners = <<>>
    /\ called = <<>>
    /\ stage = "idle"
    /\ drainIdx = 0
    /\ nreg = 0
    /\ appReady = FALSE

\* initAdblocker has not reached "Enabling blocking in default session"
FilterIdle ==
    /\ blockerHasMatch = TRUE
    /\ fpc = "idle"
    /\ filters = <<>>
    /\ handled = <<>>

\* no Strategy D wrapper is being loaded
StrategyIdle ==
    /\ extensionLoaded = FALSE
    /\ extensionLoadPromise = "null"
    /\ loadCalls = 0
    /\ loadResult = "none"
    /\ wrapped = <<>>
    /\ chains = <<>>
    /\ hook = "none"
    /\ dReady = "no"
    /\ dpc = "idle"

Init ==
    /\ platform \in Platforms
    /\ wrapperPresent \in BOOLEAN
    /\ live \in InitialLive
    /\ backup \in InitialBackup
    /\ ws = NoWorkspace
    /\ tempCheck = FALSE
    /\ useExistingBackup = FALSE
    /\ pc = "new"
    /\ exitCode = -1
    /\ log = <<>>
    /\ isPatched = FALSE
    /\ answer = <<>>
    /\ sessions = 1
    /\ liveAtStart = live
    /\ backupAtStart = backup
    /\ detectError = FALSE
    /\ prev = NoPrevious
    /\ det = DetIdle
    /\ killOutcome = "none"
    /\ InjectIdle
    /\ StrategyIdle
    /\ FilterIdle

(***************************************************************************)
(* Ways a session ends                                                     *)
(***************************************************************************)
\* process.exit(code) called directly by a step: no cleanup runs
Exit(code, entries) ==
    /\ pc' = "exited"
    /\ exitCode' = code
    /\ log' = log \o entries \o <<IF code = 0 THEN "exit0" ELSE "exit1">>

\* a catch block that exits before it cleans up
Throw_exitFirst(step) ==
    /\ ws' = ws
    /\ Exit(1, <<step, "throw">>)

\* a catch block that logs the error and lets run() go on
Throw_swallowed(step) ==
    /\ ws' = ws
    /\ log' = log \o <<step, "throw">>
    /\ pc' = IF step = "step8" THEN "exited" ELSE "step8"
    /\ exitCode' = IF step = "step8" THEN 1 ELSE exitCode

\* a step throws: the catch block of run() calls cleanup() and then
\* process.exit(1)
Throw(step) ==
    /\ ws' = cleanup(ws)
    /\ Exit(1, <<step, "throw", "cleanup">>)

(***************************************************************************)
(* Actions                                                                 *)
(***************************************************************************)
\* a start that runs the pipeline on every platform
Start_noPlatformCheck ==
    /\ pc = "new"
    /\ pc' = "kill"
    /\ UNCHANGED <<filterVars, injectVars, strategyVars, killOutcome, det, prev, detectError, platform, wrapperPresent, live,
                   backup, ws, tempCheck, useExistingBackup, exitCode, log,
                   isPatched, answer, sessions, liveAtStart, backupAtStart>>

\* new DeezerPatcher() and the head of run()
Start ==
    /\ pc = "new"
    /\ IF platform \notin {"win32", "darwin", "linux"}
       THEN \* getPlatformPaths throws in the constructor: uncaught
            Exit(1, <<"constructor", "throw">>)
       ELSE IF platform # "win32"
            THEN \* run() returns at once and the process ends normally
                 Exit(0, <<"unsupported">>)
            ELSE /\ pc' = "kill"
                 /\ UNCHANGED <<exitCode, log>>
    /\ UNCHANGED <<filterVars, injectVars, strategyVars, killOutcome, det, prev, detectError, platform, wrapperPresent, live, backup, ws, tempCheck,
                   useExistingBackup, isPatched, answer, sessions,
                   liveAtStart, backupAtStart>>

step0_KillDeezer ==
    /\ pc = "kill"
    /\ \E outcome \in KillOutcomes :
         /\ killOutcome' = outcome
         /\ IF killNext(outcome) = "throw"
            THEN Throw("step0a")
            ELSE /\ log' = log \o <<"step0a">> \o killCommands(outcome)
                             \o killMessage(outcome)
                 /\ pc' = killNext(outcome)
                 /\ UNCHANGED <<ws, exitCode>>
    /\ UNCHANGED <<filterVars, injectVars, strategyVars, det, prev, detectError, platform, wrapperPresent, live,
                   backup, tempCheck, useExistingBackup, isPatched, answer,
                   sessions, liveAtStart, backupAtStart>>

\* the 2000 ms timer awaited after a kill
SettleDelay ==
    /\ pc = "settle"
    /\ pc' = "check"
    /\ log' = log \o <<"settled">>
    /\ UNCHANGED <<filterVars, injectVars, strategyVars, killOutcome, det, prev, detectError, platform, wrapperPresent, live, backup, ws, tempCheck,
                   useExistingBackup, exitCode, isPatched, answer, sessions,
                   liveAtStart, backupAtStart>>

step0_CheckIfPatched ==
    /\ pc = "check"
    /\ IF ~existsSync(live)
       THEN /\ Throw("step0b")
            /\ UNCHANGED <<tempCheck, isPatched, detectError>>
       ELSE \E extractOk \in BOOLEAN :
              LET sig == checkPatchSignature(live, extractOk)
                  dec == detectDecision(sig.result, backup)
              IN /\ tempCheck' = sig.left
                 /\ isPatched' = sig.result
                 /\ detectError' = ~extractOk
                 /\ ws' = ws
                 /\ CASE dec = "prompt" ->
                           /\ pc' = "prompt"
                           /\ log' = log \o <<"step0b", "prompt">>
                           /\ exitCode' = exitCode
                      [] dec = "refuse" -> Exit(1, <<"step0b", "refuse">>)
                      [] OTHER ->
                           /\ pc' = "step1"
                           /\ log' = log \o <<"step0b">>
                           /\ exitCode' = exitCode
    /\ UNCHANGED <<filterVars, injectVars, strategyVars, killOutcome, det, prev, platform, wrapperPresent, live, backup,
                   useExistingBackup, answer, sessions, liveAtStart,
                   backupAtStart>>

\* the readline callback of askUserConfirmation and the rest of
\* step0_CheckIfPatched
AnswerPrompt ==
    /\ pc = "prompt"
    /\ \E a \in Answers :
         /\ answer' = a
         /\ IF askUserConfirmation(a)
            THEN /\ useExistingBackup' = TRUE
                 /\ pc' = "step1"
                 /\ log' = log \o <<"confirmed">>
                 /\ exitCode' = exitCode
            ELSE /\ useExistingBackup' = useExistingBackup
                 /\ Exit(0, <<"cancelled">>)
    /\ UNCHANGED <<filterVars, injectVars, strategyVars, killOutcome, det, prev, detectError, platform, wrapperPresent, live, backup, ws, tempCheck,
                   isPatched, sessions, liveAtStart, backupAtStart>>

step1_CreateBackup ==
    /\ pc = "step1"
    /\ IF ~existsSync(live)
       THEN Throw("step1") /\ UNCHANGED <<live, backup>>
       ELSE IF ~backupIsWritten(backup, useExistingBackup)
            THEN /\ pc' = "step2"
                 /\ log' = log \o <<"step1">>
                 /\ UNCHANGED <<live, backup, ws, exitCode>>
            ELSE \/ /\ live' = createBackupCopy(live, backup).live
                    /\ backup' = createBackupCopy(live, backup).backup
                    /\ pc' = "step2"
                    /\ log' = log \o <<"step1", "backupCreated">>
                    /\ UNCHANGED <<ws, exitCode>>
                 \/ \* fs.copyFileSync throws
                    Throw("step1") /\ UNCHANGED <<live, backup>>
    /\ UNCHANGED <<filterVars, injectVars, strategyVars, killOutcome, det, prev, detectError, platform, wrapperPresent, tempCheck, useExistingBackup,
                   isPatched, answer, sessions, liveAtStart, backupAtStart>>

step2_CreateTempFolder ==
    /\ pc = "step2"
    /\ \/ /\ ws' = EmptyWorkspace
          /\ pc' = "step3"
          /\ log' = log \o <<"step2">>
          /\ exitCode' = exitCode
       \/ \* fs.mkdirSync throws
          Throw("step2")
    /\ UNCHANGED <<filterVars, injectVars, strategyVars, killOutcome, det, prev, detectError, platform, wrapperPresent, live, backup, tempCheck,
                   useExistingBackup, isPatched, answer, sessions,
                   liveAtStart, backupAtStart>>

step3_ExtractAsar ==
    /\ pc = "step3"
    /\ LET src == sourceAsar(live, backup, useExistingBackup)
       IN \/ /\ asarReadable(src)
             /\ ws' = [ws EXCEPT !.hasTree = TRUE, !.tree = asarExtract(src)]
             /\ pc' = "step4"
             /\ log' = log \o <<"step3">>
             /\ exitCode' = exitCode
          \/ \* the extract command exits non-zero
             Throw("step3")
    /\ UNCHANGED <<filterVars, injectVars, strategyVars, killOutcome, det, prev, detectError, platform, wrapperPresent, live, backup, tempCheck,
                   useExistingBackup, isPatched, answer, sessions,
                   liveAtStart, backupAtStart>>

step4_RenameMainJs ==
    /\ pc = "step4"
    /\ IF ws.tree.main = NoScript
       THEN Throw("step4")
       ELSE /\ ws' = [ws EXCEPT !.tree = renameMainJs(ws.tree)]
            /\ pc' = "step5"
            /\ log' = log \o <<"step4">>
            /\ exitCode' = exitCode
    /\ UNCHANGED <<filterVars, injectVars, strategyVars, killOutcome, det, prev, detectError, platform, wrapperPresent, live, backup, tempCheck,
                   useExistingBackup, isPatched, answer, sessions,
                   liveAtStart, backupAtStart>>

step5_CopyNewMainJs ==
    /\ pc = "step5"
    /\ IF ~wrapperPresent
       THEN Throw("step5")
       ELSE /\ ws' = [ws EXCEPT !.tree = copyNewMainJs(ws.tree)]
            /\ pc' = "step6"
            /\ log' = log \o <<"step5">>
            /\ exitCode' = exitCode
    /\ UNCHANGED <<filterVars, injectVars, strategyVars, killOutcome, det, prev, detectError, platform, wrapperPresent, live, backup, tempCheck,
                   useExistingBackup, isPatched, answer, sessions,
                   liveAtStart, backupAtStart>>

step6_AddGhosteryDependencies ==
    /\ pc = "step6"
    /\ \/ /\ ws' = [ws EXCEPT !.tree = addGhosteryDependencies(ws.tree, "full")]
          /\ pc' = "step7"
          /\ log' = log \o <<"step6">>
          /\ exitCode' = exitCode
       \/ \* one of the two npm install commands exits non-zero
          /\ ws.tree.pkg
          /\ Throw("step6")
    /\ UNCHANGED <<filterVars, injectVars, strategyVars, killOutcome, det, prev, detectError, platform, wrapperPresent, live, backup, tempCheck,
                   useExistingBackup, isPatched, answer, sessions,
                   liveAtStart, backupAtStart>>

step7_RepackAsar ==
    /\ pc = "step7"
    /\ \/ /\ ws' = [ws EXCEPT !.newAsar = asarPack(ws.tree)]
          /\ pc' = "step8"
          /\ log' = log \o <<"step7">>
          /\ exitCode' = exitCode
       \/ \* the pack command exits non-zero
          Throw("step7")
    /\ UNCHANGED <<filterVars, injectVars, strategyVars, killOutcome, det, prev, detectError, platform, wrapperPresent, live, backup, tempCheck,
                   useExistingBackup, isPatched, answer, sessions,
                   liveAtStart, backupAtStart>>

\* step8_CopyBack, the success messages of run() and the normal end of the
\* process
step8_CopyBack ==
    /\ pc = "step8"
    /\ IF ~existsSync(ws.newAsar)
       THEN Throw("step8") /\ live' = live
       ELSE \/ /\ live' = copyBack(ws.newAsar, live)
               /\ ws' = cleanup(ws)
               /\ Exit(0, <<"step8", "copied", "cleanup", "success">>)
            \/ \* fs.copyFileSync throws
               /\ Throw("step8")
               /\ live' \in copyFailureLeaves(live)
    /\ UNCHANGED <<filterVars, injectVars, strategyVars, killOutcome, det, prev, detectError, platform, wrapperPresent, backup, tempCheck,
                   useExistingBackup, isPatched, answer, sessions,
                   liveAtStart, backupAtStart>>

\* a pipeline step before step8_CopyBack threw in this session
ThrewBeforeCopyBack ==
    /\ \E i \in DOMAIN log : log[i] = "throw"
    /\ ~\E i \in DOMAIN log : log[i] \in {"step8", "constructor"}

\* the user launches the patcher again
NewSession ==
    /\ pc = "exited"
    /\ sessions < MaxSessions
    /\ sessions' = sessions + 1
    /\ pc' = "new"
    /\ exitCode' = -1
    /\ log' = <<>>
    /\ ws' = NoWorkspace
    /\ tempCheck' = FALSE
    /\ useExistingBackup' = FALSE
    /\ isPatched' = FALSE
    /\ answer' = <<>>
    /\ liveAtStart' = live
    /\ backupAtStart' = backup
    /\ detectError' = FALSE
    /\ prev' = [ran |-> TRUE, failed |-> ThrewBeforeCopyBack,
                live |-> liveAtStart, backup |-> backupAtStart]
    /\ killOutcome' = "none"
    /\ UNCHANGED <<filterVars, injectVars, strategyVars, det, platform, wrapperPresent,
                   live, backup>>

Next ==
    \/ Start
    \/ step0_KillDeezer
    \/ SettleDelay
    \/ step0_CheckIfPatched
    \/ AnswerPrompt
    \/ step1_CreateBackup
    \/ step2_CreateTempFolder
    \/ step3_ExtractAsar
    \/ step4_RenameMainJs
    \/ step5_CopyNewMainJs
    \/ step6_AddGhosteryDependencies
    \/ step7_RepackAsar
    \/ step8_CopyBack
    \/ NewSession

Spec == Init /\ [][Next]_vars

(***************************************************************************)
(* checkPatchSignature on its own: every entry script of up to             *)
(* MaxScriptLen tokens, with the extract command succeeding or failing     *)
(***************************************************************************)
MaxScriptLen == 3

Tokens == {"code", "DZ_DEVTOOLS", "[inject]"}

Scripts == UNION {[1..n -> Tokens] : n \in 0..MaxScriptLen}

InitDetect ==
    /\ platform = "win32"
    /\ wrapperPresent = TRUE
    /\ live = NoFile
    /\ backup = NoFile
    /\ ws = NoWorkspace
    /\ tempCheck = FALSE
    /\ useExistingBackup = FALSE
    /\ pc = "idle"
    /\ exitCode = -1
    /\ log = <<>>
    /\ isPatched = FALSE
    /\ answer = <<>>
    /\ sessions = 0
    /\ liveAtStart = NoFile
    /\ backupAtStart = NoFile
    /\ detectError = FALSE
    /\ killOutcome = "none"
    /\ InjectIdle
    /\ StrategyIdle
    /\ FilterIdle
    /\ prev = NoPrevious
    /\ det \in {[pc |-> "call", script |-> sc, extractOk |-> ok,
                  result |-> FALSE, left |-> FALSE] :
                     sc \in Scripts, ok \in BOOLEAN}

\* await this.checkPatchSignature(originalAsar) on an archive whose
\* build/main.js is det.script (absent when the script is empty)
DetectCall ==
    /\ det.pc = "call"
    /\ LET sig == checkPatchSignature(
                      asarPack(Tree(det.script, NoScript, "stock", TRUE)),
                      det.extractOk)
       IN det' = [det EXCEPT !.pc = "returned",
                             !.result = sig.result,
                             !.left = sig.left]
    /\ UNCHANGED <<filterVars, injectVars, strategyVars, killOutcome, platform,
                   wrapperPresent, live, backup, ws, tempCheck,
                   useExistingBackup, pc, exitCode, log, isPatched, answer,
                   sessions, liveAtStart, backupAtStart, detectError, prev>>

SpecDetect == InitDetect /\ [][DetectCall]_vars

(***************************************************************************)
(* The injection wrappers: decomp/build/main.js (Ghostery engine) and      *)
(* patch_files/loadextention.js (unpacked extension).  Both set the two    *)
(* environment flags, replace app.on, require main.original.js and run     *)
(* bootstrap(); they differ in what bootstrap() awaits before it replays   *)
(* the captured 'ready' listeners.  The application's own code is the      *)
(* environment: it registers listeners, which may throw and may register   *)
(* further listeners when they run.                                        *)
(***************************************************************************)
MaxListeners == 3

\* values process.env may hold for a flag when the wrapper is loaded
EnvValues == {"unset", "yes", "no", "YES", "true", "1"}

\* the environment of an ordinary launch: neither flag is set
LaunchEnv == [DZ_DEVTOOLS |-> "unset", DZ_DISABLE_UPDATE |-> "unset"]

\* a flag block that only fills in a flag that is not set
setFlag_onlyIfUnset(v) == IF v = "unset" THEN "yes" ELSE v

\* if (process.env.X !== 'yes') { process.env.X = 'yes'; }
setFlag(v) == IF v # "yes" THEN "yes" ELSE v

\* the two flag blocks at the top of the wrapper
setEnvFlags(e) ==
    [DZ_DEVTOOLS |-> setFlag(e.DZ_DEVTOOLS),
     DZ_DISABLE_UPDATE |-> setFlag(e.DZ_DISABLE_UPDATE)]

Events == {"ready", "other"}

\* the listeners the application may hand to app.on as its n-th
\* registration, made for event while the wrapper is at position at; what
\* a listener does when it runs matters for 'ready' only
Listeners(n, event, at) ==
    {[id |-> n, throws |-> t, registers |-> r, regAt |-> at] :
        t \in IF event = "ready" THEN BOOLEAN ELSE {FALSE},
        r \in IF event = "ready" THEN BOOLEAN ELSE {FALSE}}

\* an override that hands every registration to the original function
appOn_passThrough(mode, event, listener, queue, native) ==
    [queue |-> queue,
     native |-> Append(native, [event |-> event, listener |-> listener])]

\* an override that puts a captured listener at the head of the array
appOn_unshift(mode, event, listener, queue, native) ==
    IF mode = "override" /\ event = "ready"
    THEN [queue |-> <<listener>> \o queue, native |-> native]
    ELSE [queue |-> queue,
          native |-> Append(native, [event |-> event, listener |-> listener])]

\* app.on(event, listener): the override pushes a 'ready' listener on
\* readyListeners and hands everything else to originalAppOn; after the
\* restore every registration goes to originalAppOn
appOn(mode, event, listener, queue, native) ==
    IF mode = "override" /\ event = "ready"
    THEN [queue |-> Append(queue, listener), native |-> native]
    ELSE [queue |-> queue,
          native |-> Append(native, [event |-> event, listener |-> listener])]

\* the first thing bootstrap() awaits after app.whenReady()
FirstStage(v) == IF v = "ghostery" THEN "deps" ELSE "extract"

\* initAdblocker / loadExtensionSafe has returned:
\* "engine" = return blocker, "manualOn" = return { manual: true },
\* "none" = return null; "extension" = loaded, "noExtension" = not loaded
Settled == {"engine", "manualOn", "none", "extension", "noExtension"}

\* how a promise of the engine library or of loadExtension may end
PromiseOutcomes == {"ok", "null", "throws", "late", "never"}

\* what each stage may meet
Outcomes(st) ==
    CASE st \in {"cache", "nocache"} -> PromiseOutcomes
      [] st = "load" -> {"ok", "throws", "never"}
      [] st = "extract" -> {"ok", "missing"}
      [] OTHER -> {"ok", "throws"}

\* an await without the race against the timer
withTimeout_none(o) == o

\* withTimeout(promise, 30000, operation): a promise that has not settled
\* when the timer fires is rejected
withTimeout(o) == IF o \in {"late", "never"} THEN "timeout" ELSE o

\* the control flow of initAdblocker (stages deps, cache, nocache, enable,
\* fallback, manual) and of loadExtensionSafe (stages extract, load); an
\* await of a promise that never settles does not return
initStep(st, o) ==
    CASE st = "deps" -> IF o = "ok" THEN "cache" ELSE "manual"
      [] st = "cache" ->
            CASE o \in {"ok", "late"} -> "enable"
              [] o = "null" -> "manual"
              [] o = "never" -> "hung"
              [] OTHER -> "nocache"
      [] st = "nocache" ->
            CASE o \in {"ok", "late"} -> "enable"
              [] o = "never" -> "hung"
              [] OTHER -> "manual"
      [] st = "enable" -> IF o = "ok" THEN "engine" ELSE "fallback"
      [] st = "fallback" -> IF o = "ok" THEN "manualOn" ELSE "manual"
      [] st = "manual" -> IF o = "ok" THEN "manualOn" ELSE "none"
      [] st = "extract" -> IF o = "ok" THEN "load" ELSE "noExtension"
      [] st = "load" ->
            CASE o = "ok" -> "extension"
              [] o = "never" -> "hung"
              [] OTHER -> "noExtension"
      [] OTHER -> st

\* a replay loop without the try / catch around the call
drainNext_rethrow(i, threw) == IF threw THEN -1 ELSE i + 1

\* the replay loop: the index after readyListeners[i]() returned or threw
drainNext(i, threw) == i + 1

\* the replay loop's test, evaluated before every iteration
drainContinues(i, queue) == i < Len(queue)

\* no patcher session and no detector call is under way
PatcherIdle ==
    /\ platform = "win32"
    /\ wrapperPresent = TRUE
    /\ live = NoFile
    /\ backup = NoFile
    /\ ws = NoWorkspace
    /\ tempCheck = FALSE
    /\ useExistingBackup = FALSE
    /\ pc = "idle"
    /\ exitCode = -1
    /\ log = <<>>
    /\ isPatched = FALSE
    /\ answer = <<>>
    /\ sessions = 0
    /\ liveAtStart = NoFile
    /\ backupAtStart = NoFile
    /\ detectError = FALSE
    /\ prev = NoPrevious
    /\ det = DetIdle
    /\ killOutcome = "none"

\* Electron starts to evaluate the wrapper as the main module, in an
\* environment out of envs
InjectStart(envs) ==
    /\ PatcherIdle
    /\ StrategyIdle
    /\ FilterIdle
    /\ env \in envs
    /\ envBefore = env
    /\ variant \in {"ghostery", "loadextention"}
    /\ wpc = "load"
    /\ appOnMode = "original"
    /\ readyListeners = <<>>
    /\ nativeListeners = <<>>
    /\ called = <<>>
    /\ stage = "idle"
    /\ drainIdx = 0
    /\ nreg = 0
    /\ appReady = FALSE

InitInject == InjectStart({LaunchEnv})

SetEnvFlags ==
    /\ wpc = "load"
    /\ env' = setEnvFlags(env)
    /\ wpc' = "override"
    /\ UNCHANGED <<filterVars, patcherVars, strategyVars, envBefore, variant, appOnMode,
                   readyListeners, nativeListeners, called, stage, drainIdx,
                   nreg, appReady>>

\* app.on = (event, listener) => ...
InstallOverride ==
    /\ wpc = "override"
    /\ appOnMode' = "override"
    /\ wpc' = "require"
    /\ UNCHANGED <<filterVars, patcherVars, strategyVars, env, envBefore, variant,
                   readyListeners, nativeListeners, called, stage, drainIdx,
                   nreg, appReady>>

\* the application calls app.on: from main.original.js while it is
\* required, from its asynchronous code later on
Register ==
    /\ wpc \in {"require", "init", "done"}
    /\ nreg < MaxListeners
    /\ \E event \in Events :
       \E l \in Listeners(nreg + 1, event, wpc) :
         LET r == appOn(appOnMode, event, l, readyListeners, nativeListeners)
         IN /\ readyListeners' = r.queue
            /\ nativeListeners' = r.native
    /\ nreg' = nreg + 1
    /\ UNCHANGED <<filterVars, patcherVars, strategyVars, env, envBefore, variant, wpc,
                   appOnMode, called, stage, drainIdx, appReady>>

\* require(ORIGINAL_MAIN) returns or throws (the exception is caught), and
\* bootstrap() runs up to await app.whenReady()
RequireReturns ==
    /\ wpc = "require"
    /\ wpc' = "await"
    /\ UNCHANGED <<filterVars, patcherVars, strategyVars, env, envBefore, variant,
                   appOnMode, readyListeners, nativeListeners, called, stage,
                   drainIdx, nreg, appReady>>

IsReadyEntry(n) == n.event = "ready"

\* the invocations Electron makes when it emits the native 'ready' event
nativeCalls(native) ==
    LET rs == SelectSeq(native, IsReadyEntry)
    IN [i \in DOMAIN rs |->
           [id |-> rs[i].listener.id, at |-> "native", initDone |-> FALSE]]

\* Electron emits 'ready': the listeners registered through originalAppOn
\* run, app.whenReady() resolves and bootstrap() calls initAdblocker /
\* loadExtensionSafe
NativeReady ==
    /\ wpc = "await"
    /\ appReady' = TRUE
    /\ called' = called \o nativeCalls(nativeListeners)
    /\ wpc' = "init"
    /\ stage' = FirstStage(variant)
    /\ UNCHANGED <<filterVars, patcherVars, strategyVars, env, envBefore, variant,
                   appOnMode, readyListeners, nativeListeners, drainIdx, nreg>>

\* one stage of initAdblocker / loadExtensionSafe
InitStep ==
    /\ wpc = "init"
    /\ stage \notin Settled \cup {"hung", "rejected"}
    /\ \E o \in Outcomes(stage) :
         stage' = initStep(stage, IF stage \in {"cache", "nocache"}
                                  THEN withTimeout(o) ELSE o)
    /\ UNCHANGED <<filterVars, patcherVars, strategyVars, env, envBefore, variant, wpc,
                   appOnMode, readyListeners, nativeListeners, called,
                   drainIdx, nreg, appReady>>

\* the awaited call has returned: bootstrap() goes on to the replay loop;
\* had it rejected, bootstrap() would reject and its catch handler log
BootstrapResumes ==
    /\ wpc = "init"
    /\ stage \in Settled \cup {"rejected"}
    /\ wpc' = IF stage = "rejected" THEN "failed" ELSE "drain"
    /\ UNCHANGED <<filterVars, patcherVars, strategyVars, env, envBefore, variant,
                   appOnMode, readyListeners, nativeListeners, called, stage,
                   drainIdx, nreg, appReady>>

\* one iteration of the replay loop: readyListeners[i]() inside try / catch
DrainStep ==
    /\ wpc = "drain"
    /\ drainContinues(drainIdx, readyListeners)
    /\ LET l == readyListeners[drainIdx + 1]
           n == drainNext(drainIdx, l.throws)
       IN /\ called' = Append(called, [id |-> l.id, at |-> "drain",
                                       initDone |-> stage \in Settled])
          /\ IF l.registers /\ nreg < MaxListeners
             THEN \E l2 \in Listeners(nreg + 1, "ready", wpc) :
                    LET r == appOn(appOnMode, "ready", l2, readyListeners,
                                   nativeListeners)
                    IN /\ readyListeners' = r.queue
                       /\ nativeListeners' = r.native
                       /\ nreg' = nreg + 1
             ELSE UNCHANGED <<readyListeners, nativeListeners, nreg>>
          /\ IF n < 0
             THEN wpc' = "failed" /\ drainIdx' = drainIdx
             ELSE wpc' = wpc /\ drainIdx' = n
    /\ UNCHANGED <<filterVars, patcherVars, strategyVars, env, envBefore, variant,
                   appOnMode, stage, appReady>>

\* app.on = originalAppOn
Restore ==
    /\ wpc = "drain"
    /\ ~drainContinues(drainIdx, readyListeners)
    /\ appOnMode' = "original"
    /\ wpc' = "done"
    /\ UNCHANGED <<filterVars, patcherVars, strategyVars, env, envBefore, variant,
                   readyListeners, nativeListeners, called, stage, drainIdx,
                   nreg, appReady>>

NextInject ==
    \/ SetEnvFlags
    \/ InstallOverride
    \/ Register
    \/ RequireReturns
    \/ NativeReady
    \/ InitStep
    \/ BootstrapResumes
    \/ DrainStep
    \/ Restore

SpecInject == InitInject /\ [][NextInject]_vars

\* the top of the wrapper on its own, up to the point where
\* main.original.js has been required, from every environment
InitFlags ==
    InjectStart([DZ_DEVTOOLS : EnvValues, DZ_DISABLE_UPDATE : EnvValues])

NextFlags ==
    \/ SetEnvFlags
    \/ InstallOverride
    \/ RequireReturns

SpecFlags == InitFlags /\ [][NextFlags]_vars

\* the event loop runs every continuation of bootstrap() that is ready
SpecInjectLive ==
    /\ SpecInject
    /\ WF_vars(InitStep)
    /\ WF_vars(BootstrapResumes)
    /\ WF_vars(DrainStep)
    /\ WF_vars(Restore)

(***************************************************************************)
(* The extension-loading wrapper of the README (Strategy D).  It patches   *)
(* app.whenReady, app.on and app.once so that the application's code waits *)
(* for ensureExtension(), and hooks the native 'ready' event.  Electron     *)
(* emits 'ready' once; the listeners due then, the promise chains and the  *)
(* end of the load are interleaved in every order.                         *)
(***************************************************************************)
MaxWrapped == 2
MaxChains == 2

\* an ensureExtension that does not keep the promise of the running load
ensureExtension_noMemo(loaded, promise, calls) ==
    IF loaded THEN [promise |-> promise, calls |-> calls]
    ELSE [promise |-> "pending", calls |-> calls + 1]

\* ensureExtension(): the promise kept in extensionLoadPromise afterwards
\* and the number of calls of loadUblockInternal made so far
ensureExtension(loaded, promise, calls) ==
    IF loaded THEN [promise |-> promise, calls |-> calls]
    ELSE IF promise = "null"
         THEN [promise |-> "pending", calls |-> calls + 1]
         ELSE [promise |-> promise, calls |-> calls]

\* a call of ensureExtension().  When it calls loadUblockInternal the
\* load is started and awaited, or loadExtension throws at once: then the
\* catch and finally blocks run before the call returns.
CallEnsureExtension ==
    LET r == ensureExtension(extensionLoaded, extensionLoadPromise, loadCalls)
    IN /\ loadCalls' = r.calls
       /\ IF r.calls > loadCalls
          THEN \/ /\ extensionLoadPromise' = r.promise
                  /\ UNCHANGED <<extensionLoaded, loadResult>>
               \/ /\ extensionLoadPromise' = "fulfilled"
                  /\ extensionLoaded' = TRUE
                  /\ loadResult' = "failed"
          ELSE /\ extensionLoadPromise' = r.promise
               /\ UNCHANGED <<extensionLoaded, loadResult>>

\* Electron starts to evaluate the wrapper; app.isReady() may hold already
InitStrategy ==
    /\ PatcherIdle
    /\ InjectIdle
    /\ FilterIdle
    /\ extensionLoaded = FALSE
    /\ extensionLoadPromise = "null"
    /\ loadCalls = 0
    /\ loadResult = "none"
    /\ wrapped = <<>>
    /\ chains = <<>>
    /\ hook = "none"
    /\ dReady \in {"no", "already"}
    /\ dpc = "patch"

\* the patches of app.whenReady, app.on and app.once, then
\* if (app.isReady()) ensureExtension(); else originalOnce('ready', ...)
InstallHook ==
    /\ dpc = "patch"
    /\ dpc' = "require"
    /\ IF dReady = "already"
       THEN CallEnsureExtension /\ hook' = hook
       ELSE /\ hook' = "registered"
            /\ UNCHANGED <<extensionLoaded, extensionLoadPromise, loadCalls,
                           loadResult>>
    /\ UNCHANGED <<filterVars, patcherVars, injectVars, wrapped, chains, dReady>>

\* the application calls app.on('ready', fn) or app.once('ready', fn):
\* wrapReadyListener(fn) is registered with Electron
DRegister ==
    /\ dpc \in {"require", "running"}
    /\ Len(wrapped) < MaxWrapped
    /\ \E kind \in {"on", "once"} :
         wrapped' = Append(wrapped, [kind |-> kind, st |-> "registered",
                                     loadedAtRun |-> FALSE])
    /\ UNCHANGED <<filterVars, patcherVars, injectVars, extensionLoaded,
                   extensionLoadPromise, loadCalls, loadResult, chains, hook,
                   dReady, dpc>>

\* the application calls app.whenReady()
DWhenReady ==
    /\ dpc \in {"require", "running"}
    /\ Len(chains) < MaxChains
    /\ chains' = Append(chains, "waiting")
    /\ UNCHANGED <<filterVars, patcherVars, injectVars, extensionLoaded,
                   extensionLoadPromise, loadCalls, loadResult, wrapped, hook,
                   dReady, dpc>>

\* require(ORIGINAL_MAIN) returns or throws (the exception is caught)
DRequireReturns ==
    /\ dpc = "require"
    /\ dpc' = "running"
    /\ UNCHANGED <<filterVars, patcherVars, injectVars, extensionLoaded,
                   extensionLoadPromise, loadCalls, loadResult, wrapped,
                   chains, hook, dReady>>

\* Electron emits 'ready': every listener registered by now is due
DNativeReady ==
    /\ dpc = "running"
    /\ dReady = "no"
    /\ dReady' = "fired"
    /\ hook' = IF hook = "registered" THEN "due" ELSE hook
    /\ wrapped' = [i \in DOMAIN wrapped |->
                      [wrapped[i] EXCEPT !.st = "due"]]
    /\ UNCHANGED <<filterVars, patcherVars, injectVars, extensionLoaded,
                   extensionLoadPromise, loadCalls, loadResult, chains, dpc>>

\* the hook of line 251 runs
InvokeHook ==
    /\ hook = "due"
    /\ hook' = "fired"
    /\ CallEnsureExtension
    /\ UNCHANGED <<filterVars, patcherVars, injectVars, wrapped, chains, dReady, dpc>>

\* a wrapped listener is invoked: it runs fn at once when extensionLoaded
\* is set, and awaits ensureExtension() otherwise
InvokeListener ==
    /\ \E i \in DOMAIN wrapped :
         /\ wrapped[i].st = "due"
         /\ IF extensionLoaded
            THEN /\ wrapped' = [wrapped EXCEPT ![i].st = "ran",
                                               ![i].loadedAtRun = extensionLoaded]
                 /\ UNCHANGED <<extensionLoaded, extensionLoadPromise,
                                loadCalls, loadResult>>
            ELSE /\ wrapped' = [wrapped EXCEPT ![i].st = "awaiting"]
                 /\ CallEnsureExtension
    /\ UNCHANGED <<filterVars, patcherVars, injectVars, chains, hook, dReady, dpc>>

\* originalWhenReady().then(() => ensureExtension()) of one chain
ChainCalls ==
    /\ dReady # "no"
    /\ \E i \in DOMAIN chains :
         /\ chains[i] = "waiting"
         /\ chains' = [chains EXCEPT ![i] = "called"]
    /\ CallEnsureExtension
    /\ UNCHANGED <<filterVars, patcherVars, injectVars, wrapped, hook, dReady, dpc>>

\* session.defaultSession.loadExtension settles: the try or the catch
\* block logs, the finally block sets extensionLoaded
LoadSettles ==
    /\ extensionLoadPromise = "pending"
    /\ \E r \in {"ok", "failed"} : loadResult' = r
    /\ extensionLoaded' = TRUE
    /\ extensionLoadPromise' = "fulfilled"
    /\ UNCHANGED <<filterVars, patcherVars, injectVars, loadCalls, wrapped, chains, hook,
                   dReady, dpc>>

\* a wrapped listener's await returns and it runs fn
ResumeListener ==
    /\ extensionLoadPromise = "fulfilled"
    /\ \E i \in DOMAIN wrapped :
         /\ wrapped[i].st = "awaiting"
         /\ wrapped' = [wrapped EXCEPT ![i].st = "ran",
                                       ![i].loadedAtRun = extensionLoaded]
    /\ UNCHANGED <<filterVars, patcherVars, injectVars, extensionLoaded,
                   extensionLoadPromise, loadCalls, loadResult, chains, hook,
                   dReady, dpc>>

NextStrategy ==
    \/ InstallHook
    \/ DRegister
    \/ DWhenReady
    \/ DRequireReturns
    \/ DNativeReady
    \/ InvokeHook
    \/ InvokeListener
    \/ ChainCalls
    \/ LoadSettles
    \/ ResumeListener

SpecStrategy == InitStrategy /\ [][NextStrategy]_vars

(***************************************************************************)
(* The request filters of initAdblocker (decomp/build/main.js).            *)
(*                                                                         *)
(* The component starts where initAdblocker holds a blocker instance and   *)
(* is about to enable blocking.  A session has at most one                 *)
(* onBeforeRequest listener; registering another one replaces it.  Session *)
(* 1 is session.defaultSession.  The response callback is Electron's: it   *)
(* records the response it is given and does not throw.  Values thrown by  *)
(* the engine are Error objects.                                           *)
(***************************************************************************)
MaxNewSessions == 1

MaxRequests == 2

\* what blocker.match(request) does for one request: it throws, returns a
\* nullish value, or returns an object with the fields match and redirect
MatchResults ==
    {[outcome |-> "throws", match |-> FALSE, redirect |-> FALSE],
     [outcome |-> "null", match |-> FALSE, redirect |-> FALSE]}
    \cup {[outcome |-> "object", match |-> m, redirect |-> r] :
             m \in BOOLEAN, r \in BOOLEAN}

\* blocker.match is not a function, so the handler does not call it
NotCalled == [outcome |-> "notCalled", match |-> FALSE, redirect |-> FALSE]

\* the guarded block without its return statements: the handler goes on to
\* the statement after the block
matchBranch_noReturn(r) ==
    IF r.outcome = "throws"
    THEN [calls |-> <<>>, threw |-> TRUE, returned |-> FALSE]
    ELSE IF r.outcome = "object" /\ r.match
    THEN [calls |-> <<"cancel">>, threw |-> FALSE, returned |-> FALSE]
    ELSE IF r.outcome = "object" /\ r.redirect
    THEN [calls |-> <<"redirect">>, threw |-> FALSE, returned |-> FALSE]
    ELSE [calls |-> <<>>, threw |-> FALSE, returned |-> FALSE]

\* const result = blocker.match(request) and the two branches on it: the
\* callback calls made, whether the block threw, whether it returned
matchBranch(r) ==
    IF r.outcome = "throws"
    THEN [calls |-> <<>>, threw |-> TRUE, returned |-> FALSE]
    ELSE IF r.outcome = "object" /\ r.match
    THEN [calls |-> <<"cancel">>, threw |-> FALSE, returned |-> TRUE]
    ELSE IF r.outcome = "object" /\ r.redirect
    THEN [calls |-> <<"redirect">>, threw |-> FALSE, returned |-> TRUE]
    ELSE [calls |-> <<>>, threw |-> FALSE, returned |-> FALSE]

\* the onBeforeRequest handler backed by the engine: the responses handed
\* to the callback, in order
engineFilter(hasMatch, r) ==
    LET b == IF hasMatch
             THEN matchBranch(r)
             ELSE [calls |-> <<>>, threw |-> FALSE, returned |-> FALSE]
        t == IF b.returned \/ b.threw
             THEN b.calls
             ELSE Append(b.calls, "allow")
    IN IF b.threw THEN Append(t, "allow") ELSE t

\* the all-URLs handler of setupManualAdBlocking, the one in use after both
\* of its registrations; ad: the URL contains one of the listed fragments
manualFilter(ad) == IF ad THEN <<"cancel">> ELSE <<"allow">>

\* the listeners a session can end up with when a handler of the given mode
\* registers on it: the engine's, the manual one when onBeforeRequest threw
\* for the engine's, or the one it had when that registration threw as well
installs(mode, had) ==
    IF mode = "engine" THEN {"engine", "manual", had}
    ELSE IF mode = "manual" THEN {"manual", had}
    ELSE {had}

InitFilter ==
    /\ PatcherIdle
    /\ InjectIdle
    /\ StrategyIdle
    /\ blockerHasMatch \in BOOLEAN
    /\ fpc = "enable"
    /\ filters = <<"none">>
    /\ handled = <<>>

\* "Enabling blocking in default session": the engine's listener, or the
\* manual fallback, or "The app will continue without ad blocking"
EnableBlocking ==
    /\ fpc = "enable"
    /\ \E mode \in {"engine", "manual", "off"} :
         /\ fpc' = mode
         /\ filters' = [filters EXCEPT ![1] =
                           IF mode = "off" THEN "none" ELSE mode]
    /\ UNCHANGED <<patcherVars, injectVars, strategyVars, blockerHasMatch,
                   handled>>

\* app emits 'session-created'
SessionCreated ==
    /\ Len(filters) < 1 + MaxNewSessions
    /\ \E k \in installs(fpc, "none") : filters' = Append(filters, k)
    /\ UNCHANGED <<patcherVars, injectVars, strategyVars, blockerHasMatch,
                   fpc, handled>>

\* app emits 'web-contents-created' for a webContents of session s
WebContentsCreated ==
    /\ fpc \in {"engine", "manual"}
    /\ \E s \in DOMAIN filters :
         \E k \in installs(fpc, filters[s]) :
            filters' = [filters EXCEPT ![s] = k]
    /\ UNCHANGED <<patcherVars, injectVars, strategyVars, blockerHasMatch,
                   fpc, handled>>

\* Electron hands a request of session s to the session's listener
Intercept ==
    /\ Len(handled) < MaxRequests
    /\ \E s \in DOMAIN filters :
         \/ /\ filters[s] = "engine"
            /\ \E r \in (IF blockerHasMatch THEN MatchResults
                                            ELSE {NotCalled}) :
                 handled' = Append(handled,
                     [session |-> s, filter |-> "engine", engine |-> r,
                      ad |-> FALSE,
                      responses |-> engineFilter(blockerHasMatch, r)])
         \/ /\ filters[s] = "manual"
            /\ \E ad \in BOOLEAN :
                 handled' = Append(handled,
                     [session |-> s, filter |-> "manual",
                      engine |-> NotCalled, ad |-> ad,
                      responses |-> manualFilter(ad)])
    /\ UNCHANGED <<patcherVars, injectVars, strategyVars, blockerHasMatch,
                   fpc, filters>>

NextFilter ==
    \/ EnableBlocking
    \/ SessionCreated
    \/ WebContentsCreated
    \/ Intercept

SpecFilter == InitFilter /\ [][NextFilter]_vars

(***************************************************************************)
(* Properties                                                              *)
(***************************************************************************)
Reached(e) == \E i \in DOMAIN log : log[i] = e

hasMarker(script) == includes(script, "DZ_DEVTOOLS") \/ includes(script, "[inject]")

\* an archive as the vendor ships it
Unpatched(file) ==
    /\ asarReadable(file)
    /\ ~hasMarker(file.tree.main)
    /\ file.tree.orig = NoScript

\* an archive that went through the patcher
Patched(file) == asarReadable(file) /\ hasMarker(file.tree.main)

\* C1: as long as the session has not entered step8_CopyBack, the live
\* archive has the content it had at session start; in particular it has
\* that content after every failure of an earlier step and after every
\* early termination.
C1_LiveUntouchedBeforeCopyBack ==
    ~Reached("step8") => live = liveAtStart

C1_Witness ==
    /\ pc = "exited" /\ exitCode = 1
    /\ Reached("step5") /\ Reached("step6") /\ Reached("throw")
    /\ ~Reached("step7")
    /\ live = liveAtStart

\* C2: when a session has terminated (success, step failure, cancellation
\* or refusal) its scratch workspace does not exist.
C2_WorkspaceRemoved ==
    pc = "exited" => ~ws.exists

C2_Witness ==
    /\ pc = "exited" /\ exitCode = 1
    /\ Reached("step3") /\ Reached("step4") /\ Reached("throw")
    /\ ~ws.exists

\* C3: once the backup file exists no step changes its content, over any
\* sequence of sessions.
C3_BackupNeverOverwritten ==
    [][existsSync(backup) => backup' = backup]_vars

C3_Witness ==
    /\ sessions = 2 /\ pc = "step2"
    /\ ~useExistingBackup
    /\ existsSync(backupAtStart) /\ backup = backupAtStart
    /\ live # backup

\* C4: whenever a backup exists its content is an unpatched archive.
C4_BackupIsPristine ==
    existsSync(backup) => Unpatched(backup)

\* C5: a tree that reaches the rename step was extracted from pristine
\* content, and the wrapper never ends up under main.original.js.
C5_ExtractedFromPristine ==
    /\ pc = "step4" => ~hasMarker(ws.tree.main)
    /\ ~hasMarker(ws.tree.orig)

\* C6: after step3_ExtractAsar the entry script in the workspace is the
\* backup's entry script when useExistingBackup is set, and the live
\* archive's entry script otherwise.
C6_ExtractionSource ==
    pc = "step4" =>
        ws.tree.main = IF useExistingBackup THEN backup.tree.main
                                            ELSE live.tree.main

C6_Witness ==
    /\ pc = "step4" /\ useExistingBackup
    /\ ws.tree.main = backup.tree.main
    /\ backup.tree.main # live.tree.main

\* C7: when the live archive was detected as patched and no backup exists,
\* the session has exited with status 1 without a backup step, a
\* workspace, an extraction or a change of the live archive.
C7_RefuseWithoutBackup ==
    (Reached("step0b") /\ isPatched /\ ~existsSync(backupAtStart)) =>
        /\ pc = "exited" /\ exitCode = 1
        /\ ~Reached("step1") /\ ~Reached("step2") /\ ~Reached("step3")
        /\ ~existsSync(backup)
        /\ live = liveAtStart
        /\ ~ws.exists

C7_Witness ==
    /\ Reached("step0b") /\ isPatched /\ ~existsSync(backupAtStart)
    /\ pc = "exited" /\ exitCode = 1

\* the answers that read as y or yes once trimmed and lower-cased
YesAnswers ==
    { <<"y">>, <<"Y">>, <<"y", "e", "s">>, <<" ", "Y", "e", "S", " ">> }

\* C8: once the re-patch prompt was answered with anything but y / yes,
\* the session has exited with status 0 and the live archive, the backup
\* and the workspace are as they were at session start.
C8_DeclineChangesNothing ==
    (Reached("prompt") /\ pc # "prompt" /\ answer \notin YesAnswers) =>
        /\ pc = "exited" /\ exitCode = 0
        /\ live = liveAtStart
        /\ backup = backupAtStart
        /\ ~ws.exists /\ ~Reached("step2")
        /\ ~useExistingBackup

C8_Witness ==
    /\ Reached("prompt") /\ answer = <<"y", "e">>
    /\ pc = "exited" /\ exitCode = 0
    /\ Patched(liveAtStart) /\ existsSync(backupAtStart)

C10_RepatchIdempotent ==
    (pc = "exited" /\ Reached("success") /\ Reached("confirmed")) =>
        /\ live = asarPack(PatchedOf(backupAtStart.tree))
        /\ ~hasMarker(live.tree.orig)
        /\ backup = backupAtStart

\* the step named s threw
StepThrew(s) == \E i \in 1..(Len(log) - 1) : log[i] = s /\ log[i + 1] = "throw"

\* C11: when a pipeline step has thrown, the session has ended with
\* cleanup run after the throw and before the exit, exit status 1 and no
\* workspace; when the throwing step is the dependency installation the
\* live archive also has its content from session start.
C11_ThrowCleansUpThenExits ==
    (Reached("throw") /\ ~Reached("constructor")) =>
        /\ pc = "exited" /\ exitCode = 1
        /\ ~ws.exists
        /\ Len(log) >= 3
        /\ SubSeq(log, Len(log) - 2, Len(log)) = <<"throw", "cleanup", "exit1">>
        /\ (StepThrew("step6") => live = liveAtStart)

C11_Witness ==
    /\ StepThrew("step6") /\ Reached("step5")
    /\ pc = "exited" /\ exitCode = 1
    /\ ~ws.exists /\ live = liveAtStart

\* what one session that reports success leaves behind when it starts
\* with live archive l and backup b: the patched tree of the archive it
\* extracts, and the backup it keeps or creates
SingleSessionResults(l, b) ==
    UNION { LET patched == d /\ asarReadable(l) /\ hasMarker(l.tree.main)
                use == patched /\ existsSync(b)
                src == IF use THEN b ELSE l
            IN IF \/ patched /\ ~existsSync(b)
                  \/ ~asarReadable(src)
                  \/ src.tree.main = NoScript
               THEN {}
               ELSE {[live |-> asarPack(PatchedOf(src.tree)),
                      backup |-> IF existsSync(b) THEN b ELSE l]}
          : d \in BOOLEAN }

C13_DetectionExact ==
    det.pc = "returned" =>
        (det.result <=>
            /\ det.extractOk
            /\ det.script # <<>>
            /\ \E i \in 1..Len(det.script) :
                  det.script[i] \in {"DZ_DEVTOOLS", "[inject]"})

C13_Witness ==
    /\ det.pc = "returned" /\ det.result
    /\ det.script = <<"code", "[inject]">>

\* C14: once checkPatchSignature has returned, its temporary directory
\* does not exist.
C14_TempCheckRemoved ==
    Reached("step0b") => ~tempCheck

\* the steps of run() in their order
StepOrder ==
    <<"step0a", "step0b", "step1", "step2", "step3", "step4", "step5",
      "step6", "step7", "step8">>

IsStep(e) == \E i \in DOMAIN StepOrder : StepOrder[i] = e

StepsRun == SelectSeq(log, IsStep)

\* C15: the steps a session has started are an initial part of the fixed
\* order kill, detect, backup, workspace, extract, rename, wrapper,
\* dependencies, repack, copy back, and no step starts after a throw.
C15_StepsInOrder ==
    /\ StepsRun = SubSeq(StepOrder, 1, Len(StepsRun))
    /\ \A i \in DOMAIN log :
          log[i] = "throw" => \A j \in DOMAIN log : j > i => ~IsStep(log[j])

C15_Witness ==
    /\ StepThrew("step4")
    /\ StepsRun = SubSeq(StepOrder, 1, 6)
    /\ pc = "exited"

\* C16: once step0_KillDeezer has run it has not thrown, whatever the
\* outcome of detection and of the kill attempts, and the session is at the
\* settle timer, at patch detection or beyond it.
C16_KillNeverAborts ==
    Reached("step0a") =>
        /\ ~StepThrew("step0a")
        /\ pc \in {"settle", "check"} \/ Reached("step0b")

C16_Witness ==
    /\ Reached("taskkill/F") /\ Reached("notRunning")
    /\ Reached("step0b") /\ pc = "step1"

\* C17: after a kill that closed Deezer the next thing the session does is
\* to let the settle timer elapse; while the timer runs no detection has
\* started and the archive, the backup and the workspace are untouched.
C17_SettleBeforeArchiveIO ==
    /\ \A i \in DOMAIN log :
          log[i] = "closed" =>
             \/ i = Len(log) /\ pc = "settle"
             \/ i < Len(log) /\ log[i + 1] = "settled"
    /\ pc = "settle" =>
          /\ ~Reached("step0b")
          /\ live = liveAtStart /\ backup = backupAtStart
          /\ ~ws.exists /\ ~tempCheck

C17_Witness ==
    /\ Reached("taskkill/F") /\ Reached("closed") /\ Reached("settled")
    /\ pc = "step4"

\* C18: when checkPatchSignature took its catch branch the archive counts
\* as not patched: useExistingBackup is unset, there was no prompt and no
\* refusal, and the session is at the backup step or beyond it.
C18_DetectionErrorIsNotPatched ==
    detectError =>
        /\ ~isPatched /\ ~useExistingBackup
        /\ ~Reached("prompt") /\ ~Reached("refuse")
        /\ pc = "step1" \/ Reached("step1")

C18_Witness ==
    /\ detectError /\ Patched(liveAtStart)
    /\ Reached("step1") /\ pc = "step2"

\* the live archive is missing or the platform is not Windows
EnvError == platform # "win32" \/ ~existsSync(liveAtStart)

\* C19 as stated: with a missing live archive or a platform other than
\* Windows the session ends with a non-zero status, without a workspace or
\* a backup and without changing a file.
C19_EnvErrorsFatal ==
    (pc = "exited" /\ EnvError) =>
        /\ exitCode # 0
        /\ ~ws.exists /\ ~Reached("step1") /\ ~Reached("step2")
        /\ live = liveAtStart /\ backup = backupAtStart

\* C19 amended: with a missing live archive or a platform other than
\* Windows no workspace and no backup is created and no file changes; the
\* session ends with status 1 when the archive is missing or the platform
\* has no path table, and with status 0 on darwin and linux.
C19_EnvErrorsAmended ==
    EnvError =>
        /\ ~ws.exists /\ ~Reached("step1") /\ ~Reached("step2")
        /\ live = liveAtStart /\ backup = backupAtStart
        /\ pc = "exited" =>
              exitCode = IF platform \in {"darwin", "linux"} THEN 0 ELSE 1

C19_Witness ==
    /\ platform = "win32" /\ ~existsSync(liveAtStart)
    /\ StepThrew("step0b")
    /\ pc = "exited" /\ exitCode = 1

\* C20: after step6_AddGhosteryDependencies returned without throwing the
\* tree holds the ad-block engine and the remaining dependencies, and so
\* does every archive installed afterwards.
C20_DependenciesMaterialised ==
    /\ pc \in {"step7", "step8"} => ws.tree.nm = "full"
    /\ Reached("success") => live.tree.nm = "full"

\* the archive step3_ExtractAsar reads in this session: the backup on a
\* confirmed re-patch, else the live archive (unchanged until step 8)
ExtractedArchive == IF useExistingBackup THEN backup ELSE liveAtStart

\* C21: once step4_RenameMainJs and step5_CopyNewMainJs have both
\* succeeded the tree holds the extracted archive's entry script under
\* build/main.original.js and the injection wrapper under build/main.js;
\* step 4 throws when the entry script is absent and step 5 throws when the
\* wrapper source is absent, and then the session has ended with status 1,
\* without a later step and with the live archive as at session start.
C21_EntrySwapped ==
    /\ pc \in {"step6", "step7", "step8"} =>
          /\ ws.tree.orig = ExtractedArchive.tree.main
          /\ ws.tree.orig # NoScript
          /\ ws.tree.main = WrapperScript
    /\ (Reached("step4") /\ pc # "step4"
            /\ ExtractedArchive.tree.main = NoScript) => StepThrew("step4")
    /\ (Reached("step5") /\ ~wrapperPresent) => StepThrew("step5")
    /\ (StepThrew("step4") \/ StepThrew("step5")) =>
          /\ pc = "exited" /\ exitCode = 1
          /\ live = liveAtStart
          /\ ~Reached("step6") /\ ~Reached("copied")
    /\ StepThrew("step4") => ~Reached("step5")

C21_Witness ==
    /\ pc = "step6"
    /\ liveAtStart = asarPack(PristineA)
    /\ ws.tree.orig = OrigA
    /\ ws.tree.main = WrapperScript

\* the wrapper has not reached the replay loop
BeforeDrain == wpc \in {"load", "override", "require", "await", "init"}

\* the ids of a sequence of listeners or of invocations
Ids(q) == [i \in DOMAIN q |-> q[i].id]

C23_OrderedQueue ==
    /\ Ids(called) = SubSeq(Ids(readyListeners), 1, drainIdx)
    /\ \A i, j \in DOMAIN readyListeners :
          i < j => readyListeners[i].id < readyListeners[j].id
    /\ called # <<>> => wpc \in {"drain", "done"}
    /\ wpc = "done" => drainIdx = Len(readyListeners)

C23_Witness ==
    /\ wpc = "done"
    /\ Len(readyListeners) = 3
    /\ readyListeners[2].regAt = "require"
    /\ readyListeners[3].regAt = "drain"
    /\ Ids(called) = <<1, 2, 3>>

\* C24: initAdblocker never rejects and never waits for ever, and once the
\* native 'ready' event has fired the Ghostery wrapper's bootstrap() gets to
\* the end of the replay loop, whatever happens inside initAdblocker.
C24_StartupNeverAborted ==
    /\ [](stage # "rejected" /\ (variant = "ghostery" => stage # "hung"))
    /\ (variant = "ghostery" /\ appReady) ~> (wpc = "done")

C24_Witness ==
    /\ variant = "ghostery" /\ stage = "none"
    /\ wpc = "done"
    /\ Len(called) = 2 /\ drainIdx = 2

\* C25: from the moment the flag blocks have run, and so while
\* main.original.js is required and ever after, both flags are 'yes'
\* whatever they were before, and running the flag blocks again would
\* change nothing.
C25_FlagsSetBeforeOriginal ==
    wpc \notin {"idle", "load"} =>
        /\ env.DZ_DEVTOOLS = "yes"
        /\ env.DZ_DISABLE_UPDATE = "yes"
        /\ setEnvFlags(env) = env

C25_Witness ==
    /\ wpc = "require"
    /\ envBefore = [DZ_DEVTOOLS |-> "no", DZ_DISABLE_UPDATE |-> "YES"]
    /\ env = [DZ_DEVTOOLS |-> "yes", DZ_DISABLE_UPDATE |-> "yes"]

\* C26: loadUblockInternal is called at most once, whoever calls
\* ensureExtension and in whatever order, and a wrapped 'ready' listener
\* has run its function only with extensionLoaded set, which is set when
\* the load has ended, with the extension loaded or not.
C26_ExtensionLoadedOnce ==
    /\ loadCalls <= 1
    /\ \A i \in DOMAIN wrapped :
          wrapped[i].st = "ran" => wrapped[i].loadedAtRun /\ extensionLoaded
    /\ extensionLoaded <=> loadResult # "none"
    /\ extensionLoaded => loadCalls = 1
    /\ extensionLoadPromise = "null" <=> loadCalls = 0

C26_Witness ==
    /\ loadCalls = 1 /\ loadResult = "failed"
    /\ hook = "fired"
    /\ Len(wrapped) = 2
    /\ wrapped[1].kind = "on" /\ wrapped[1].st = "ran"
    /\ wrapped[2].kind = "once" /\ wrapped[2].st = "ran"
    /\ \E i \in DOMAIN chains : chains[i] = "called"

\* tasklist found a running instance
InstanceDetected == killOutcome \in {"graceful", "forced", "forceFailed"}

\* taskkill without /F exited non-zero
GracefulFailed == killOutcome \in {"forced", "forceFailed"}

\* C27: step0_KillDeezer runs taskkill only when tasklist found a running
\* instance, and taskkill /F only when the taskkill without /F has failed;
\* in the order of commands the forced kill comes right after the graceful
\* one and the graceful one right after tasklist.
C27_ForceOnlyAfterGraceful ==
    /\ (Reached("taskkill") \/ Reached("taskkill/F")) => InstanceDetected
    /\ Reached("taskkill/F") => GracefulFailed
    /\ \A i \in DOMAIN log :
          /\ log[i] = "taskkill/F" => i > 1 /\ log[i - 1] = "taskkill"
          /\ log[i] = "taskkill" => i > 1 /\ log[i - 1] = "tasklist"

C27_Witness ==
    /\ killOutcome = "forced"
    /\ Reached("taskkill") /\ Reached("taskkill/F") /\ Reached("closed")
    /\ pc = "check"

\* C28: a listener that throws in the replay loop does not end the loop:
\* bootstrap() does not fail, and when the loop is over every captured
\* listener has been invoked and app.on is the original function again, so
\* that a listener registered later is handed to Electron and not captured.
C28_DrainIsolatesErrors ==
    /\ wpc # "failed"
    /\ wpc = "drain" => appOnMode = "override"
    /\ wpc = "done" =>
          /\ appOnMode = "original"
          /\ Len(called) = Len(readyListeners)
    /\ \A i \in DOMAIN readyListeners : readyListeners[i].regAt # "done"
    /\ \A i \in DOMAIN nativeListeners :
          IsReadyEntry(nativeListeners[i]) =>
             nativeListeners[i].listener.regAt = "done"

C28_Witness ==
    /\ wpc = "done"
    /\ Len(readyListeners) = 2 /\ readyListeners[1].throws
    /\ Ids(called) = Ids(readyListeners)
    /\ Len(nativeListeners) = 1 /\ IsReadyEntry(nativeListeners[1])

\* C29: useExistingBackup is set only when the live archive was detected
\* as patched, a backup existed then and the prompt was answered y / yes;
\* while it is set the backup exists, is the file found at session start
\* and no backup was written in the session.
C29_ReuseMeansConfirmedBackup ==
    useExistingBackup =>
        /\ isPatched /\ ~detectError
        /\ existsSync(backupAtStart)
        /\ Reached("prompt") /\ Reached("confirmed")
        /\ answer \in YesAnswers
        /\ existsSync(backup) /\ backup = backupAtStart
        /\ ~Reached("backupCreated")

C29_Witness ==
    /\ useExistingBackup
    /\ pc = "exited" /\ Reached("success")
    /\ backup = backupAtStart /\ live # liveAtStart

\* C30: a session that reported success has replaced the live archive by
\* the archive repacked in it and has no workspace; a session that exited
\* with a non-zero status has left the live archive with the content it
\* had at session start.
C30_SuccessOrUntouched ==
    /\ Reached("success") =>
          /\ Reached("step7") /\ Reached("copied")
          /\ live = asarPack(live.tree) /\ live.tree.main = WrapperScript
          /\ ~ws.exists
          /\ exitCode = 0
    /\ (pc = "exited" /\ exitCode # 0) => live = liveAtStart

\* a request that reached the engine-backed handler
EngineHandled(q) == q.filter = "engine"

\* the response the engine's report calls for
Expected(r) ==
    IF r.outcome = "object" /\ r.match THEN "cancel"
    ELSE IF r.outcome = "object" /\ r.redirect THEN "redirect"
    ELSE "allow"

\* C31: every request intercepted by the engine-backed request filter gets
\* exactly one call of its response callback: cancel when the engine
\* reports a match, a redirect when it reports a redirect and no match, and
\* the empty (allow) response in every other case, among them the case that
\* blocker.match throws and the case that it is not a function.
C31_CallbackExactlyOnce ==
    \A i \in DOMAIN handled :
       EngineHandled(handled[i]) =>
          /\ Len(handled[i].responses) = 1
          /\ handled[i].responses[1] = Expected(handled[i].engine)

\* the engine's handler answered a request for which blocker.match threw,
\* and one for which it reported a match, on a session created later
C31_Witness ==
    /\ \E i \in DOMAIN handled :
          /\ EngineHandled(handled[i])
          /\ handled[i].engine.outcome = "throws"
          /\ handled[i].responses = <<"allow">>
    /\ \E i \in DOMAIN handled :
          /\ EngineHandled(handled[i])
          /\ handled[i].session > 1
          /\ handled[i].engine.match
          /\ handled[i].responses = <<"cancel">>

====
